---- MODULE Spec2Model ----
(***************************************************************************)
(* Sleep_Tracker (src/src/main.rs): the metrics core (to_minutes,          *)
(* calc_window, round_to_2_sig_figs, calc_efficiency and the three         *)
(* calculate_average_* functions) and the interactive data-entry flow      *)
(* (run_app, enter_sleep_data, get_input, get_number_input,                *)
(* is_exit_command).                                                       *)
(*                                                                         *)
(* Strings are sequences of one-character strings.  i32 values keep their  *)
(* 32-bit width: an arithmetic overflow panics when the build has overflow *)
(* checks (debug profile) and wraps modulo 2^32 otherwise (release         *)
(* profile); the variable overflow_checks is the build profile.  f64       *)
(* values are exact rationals [num, den] in lowest terms with den > 0: the *)
(* rounding error of the f64 operations is not modelled, so a quotient     *)
(* that is an exact tie of the rounding (23 / 40 * 100 = 57.5) rounds away *)
(* from zero here, while the f64 product may fall just below the tie.      *)
(***************************************************************************)
EXTENDS Integers, Sequences, FiniteSets, TLC

VARIABLES
    overflow_checks,  \* the build profile: TRUE = debug (overflow panics), FALSE = release (wraps)
    input,            \* the core function called and its arguments
    ret,              \* what the call returned: status "none" (not called yet), "ok" or "panic"
    pc,               \* where run_app is: "start", "menu", "prompt", "continue", "done" ("idle": not run)
    prompt,           \* enter_sleep_data: the prompt being asked (1..10), 11 once all are answered
    locals,           \* enter_sleep_data: the answers bound so far
    last_line,        \* the line last read from stdin
    outcome,          \* what run_app returned: "running", "Ok", "UserExit", "Database", "Io", "panic"
    db,               \* the rows of table answer
    insert_calls,     \* how many times dao.insert was called in this run
    retry_message     \* get_number_input printed its retry message for the line last read

coreVars == <<overflow_checks, input, ret>>
appVars == <<pc, prompt, locals, last_line, outcome, db, insert_calls, retry_message>>
vars == <<overflow_checks, input, ret, pc, prompt, locals, last_line, outcome, db, insert_calls,
          retry_message>>

-----------------------------------------------------------------------------
(* i32 arithmetic *)

I32_MAX == 2147483647
I32_MIN == -I32_MAX - 1

IntOk(v) == [panic |-> FALSE, val |-> v]
IntPanic == [panic |-> TRUE, val |-> 0]

AddOverflows(a, b) ==
    \/ b > 0 /\ a > I32_MAX - b
    \/ b < 0 /\ a < I32_MIN - b

\* a + b modulo 2^32, computed without leaving the 32-bit range
WrappingAdd(a, b) ==
    IF b > 0 /\ a > I32_MAX - b THEN (a - I32_MAX - 1) + (b - I32_MAX - 1)
    ELSE IF b < 0 /\ a < I32_MIN - b THEN (a + I32_MAX + 1) + (b + I32_MAX + 1)
    ELSE a + b

SubOverflows(a, b) ==
    \/ b > 0 /\ a < I32_MIN + b
    \/ b < 0 /\ a > I32_MAX + b

WrappingSub(a, b) ==
    IF b > 0 /\ a < I32_MIN + b THEN (a + I32_MAX + 1) - (b - I32_MAX - 1)
    ELSE IF b < 0 /\ a > I32_MAX + b THEN (a - I32_MAX - 1) - (b + I32_MAX + 1)
    ELSE a - b

\* a * k overflows, for a literal k > 0
MulOverflows(a, k) ==
    \/ a > I32_MAX \div k
    \/ a < -((I32_MAX \div k) + (IF I32_MAX % k = k - 1 THEN 1 ELSE 0))

\* a * k modulo 2^32, by doubling
RECURSIVE WrappingMul(_, _)
WrappingMul(a, k) ==
    IF k = 0 THEN 0
    ELSE LET half == WrappingMul(a, k \div 2)
             twice == WrappingAdd(half, half)
         IN  IF k % 2 = 1 THEN WrappingAdd(twice, a) ELSE twice

\* the i32 operators +, - and * of the source: panic or wrap, by build profile
I32Add(a, b) ==
    IF AddOverflows(a, b) /\ overflow_checks THEN IntPanic ELSE IntOk(WrappingAdd(a, b))

I32Sub(a, b) ==
    IF SubOverflows(a, b) /\ overflow_checks THEN IntPanic ELSE IntOk(WrappingSub(a, b))

I32Mul(a, k) ==
    IF MulOverflows(a, k) /\ overflow_checks THEN IntPanic ELSE IntOk(WrappingMul(a, k))

-----------------------------------------------------------------------------
(* f64 values as exact rationals *)

Abs(x) == IF x < 0 THEN -x ELSE x

RECURSIVE Gcd(_, _)
Gcd(a, b) == IF b = 0 THEN a ELSE Gcd(b, a % b)

\* n / d in lowest terms with a positive denominator (d # 0)
Rat(n, d) ==
    LET g == Gcd(Abs(n), Abs(d))
        s == IF d < 0 THEN -1 ELSE 1
    IN  [num |-> s * (n \div g), den |-> s * (d \div g)]

FromInt(n) == [num |-> n, den |-> 1]
RatZero == FromInt(0)

RatAdd(p, q) == Rat(p.num * q.den + q.num * p.den, p.den * q.den)
RatMul(p, q) == Rat(p.num * q.num, p.den * q.den)
RatDiv(p, q) == Rat(p.num * q.den, p.den * q.num)
RatAbs(p) == [num |-> Abs(p.num), den |-> p.den]
RatLe(p, q) == p.num * q.den <= q.num * p.den
RatLt(p, q) == p.num * q.den < q.num * p.den

RECURSIVE Pow10(_)
Pow10(k) == IF k = 0 THEN 1 ELSE 10 * Pow10(k - 1)

\* 10.0f64.powi(k)
Powi10(k) == IF k >= 0 THEN FromInt(Pow10(k)) ELSE Rat(1, Pow10(-k))

\* f64::log10 followed by f64::floor, for q > 0: the e with 10^e <= q < 10^(e+1)
RECURSIVE FloorLog10(_)
FloorLog10(q) ==
    IF q.num >= 10 * q.den THEN 1 + FloorLog10(Rat(q.num, q.den * 10))
    ELSE IF q.num < q.den THEN FloorLog10(Rat(q.num * 10, q.den)) - 1
    ELSE 0

\* f64::trunc in the place of f64::round: the fraction is dropped
F64Trunc(q) ==
    LET m == Abs(q.num) \div q.den
    IN  [num |-> IF q.num < 0 THEN -m ELSE m, den |-> 1]

\* f64::round: to the nearest integer, halves away from zero
F64Round(q) ==
    LET m == (2 * Abs(q.num) + q.den) \div (2 * q.den)
    IN  FromInt(IF q.num < 0 THEN -m ELSE m)

F64Ok(q) == [panic |-> FALSE, val |-> q]
F64Panic == [panic |-> TRUE, val |-> RatZero]

-----------------------------------------------------------------------------
(* strings *)

DigitChars == <<"0", "1", "2", "3", "4", "5", "6", "7", "8", "9">>
IsDigit(c) == \E i \in 1..10 : DigitChars[i] = c
DigitVal(c) == (CHOOSE i \in 1..10 : DigitChars[i] = c) - 1

\* str::split(':'): the pieces between the separators, empty pieces included
RECURSIVE Split(_)
Split(s) ==
    IF \A i \in 1..Len(s) : s[i] # ":" THEN <<s>>
    ELSE LET i == CHOOSE j \in 1..Len(s) : s[j] = ":" /\ \A k \in 1..(j - 1) : s[k] # ":"
         IN  <<SubSeq(s, 1, i - 1)>> \o Split(SubSeq(s, i + 1, Len(s)))

ParseOk(v) == [ok |-> TRUE, val |-> v]
ParseErr == [ok |-> FALSE, val |-> 0]

\* the digit loop of i32::from_str: checked multiply by 10, then checked add or subtract
RECURSIVE ParseDigits(_, _, _)
ParseDigits(ds, acc, neg) ==
    IF ds = <<>> THEN ParseOk(acc)
    ELSE IF ~IsDigit(Head(ds)) THEN ParseErr
    ELSE LET d == DigitVal(Head(ds)) IN
         IF neg
         THEN IF acc < -(I32_MAX \div 10) \/ acc * 10 < I32_MIN + d THEN ParseErr
              ELSE ParseDigits(Tail(ds), acc * 10 - d, neg)
         ELSE IF acc > I32_MAX \div 10 \/ acc * 10 > I32_MAX - d THEN ParseErr
              ELSE ParseDigits(Tail(ds), acc * 10 + d, neg)

\* str::parse::<i32>(): an optional sign, then at least one digit, nothing else
ParseI32(s) ==
    IF s = <<>> THEN ParseErr
    ELSE IF Head(s) \in {"+", "-"}
         THEN IF Len(s) = 1 THEN ParseErr ELSE ParseDigits(Tail(s), 0, Head(s) = "-")
         ELSE ParseDigits(s, 0, FALSE)

UnwrapOr(r, dflt) == IF r.ok THEN r.val ELSE dflt

-----------------------------------------------------------------------------
(* the metrics core *)

to_minutes(hhmm) ==
    LET parts == Split(hhmm) IN
    IF Len(parts) = 2
    THEN LET hours == UnwrapOr(ParseI32(parts[1]), 0)
             minutes == UnwrapOr(ParseI32(parts[2]), 0)
             prod == I32Mul(hours, 60)
         IN  IF prod.panic THEN IntPanic ELSE I32Add(prod.val, minutes)
    ELSE IntOk(0)

\* calc_window with < in the place of <=: equal times are not moved to the next day
calc_window_same_day(bedtime, wake_target) ==
    LET bedtime_minutes == to_minutes(bedtime)
        wake0 == to_minutes(wake_target)
    IN  IF bedtime_minutes.panic \/ wake0.panic THEN IntPanic
        ELSE LET wake_time_minutes ==
                     IF wake0.val < bedtime_minutes.val
                     THEN I32Add(wake0.val, 24 * 60)
                     ELSE wake0
             IN  IF wake_time_minutes.panic THEN IntPanic
                 ELSE I32Sub(wake_time_minutes.val, bedtime_minutes.val)

calc_window(bedtime, wake_target) ==
    LET bedtime_minutes == to_minutes(bedtime)
        wake0 == to_minutes(wake_target)
    IN  IF bedtime_minutes.panic \/ wake0.panic THEN IntPanic
        ELSE LET wake_time_minutes ==
                     IF wake0.val <= bedtime_minutes.val
                     THEN I32Add(wake0.val, 24 * 60)
                     ELSE wake0
             IN  IF wake_time_minutes.panic THEN IntPanic
                 ELSE I32Sub(wake_time_minutes.val, bedtime_minutes.val)

\* rounding to two decimal places in the place of two significant figures
round_to_2_decimals(value) ==
    RatDiv(F64Round(RatMul(value, FromInt(100))), FromInt(100))

round_to_2_sig_figs(value) ==
    IF value.num = 0 THEN RatZero
    ELSE LET scale == FloorLog10(RatAbs(value))
             factor == Powi10(1 - scale)
         IN  RatDiv(F64Round(RatMul(value, factor)), factor)

calc_efficiency(sleep, awake, latency) ==
    LET s1 == I32Add(sleep, awake)
        time_in_bed == IF s1.panic THEN IntPanic ELSE I32Add(s1.val, latency)
    IN  IF time_in_bed.panic THEN F64Panic
        ELSE IF time_in_bed.val = 0 THEN F64Ok(RatZero)
        ELSE F64Ok(round_to_2_sig_figs(
                 RatMul(Rat(sleep, time_in_bed.val), FromInt(100))))

\* Iterator::sum over an i32 field: a left fold with the i32 operator +
RECURSIVE I32Sum(_)
I32Sum(xs) ==
    IF xs = <<>> THEN IntOk(0)
    ELSE LET acc == I32Sum(SubSeq(xs, 1, Len(xs) - 1))
         IN  IF acc.panic THEN IntPanic ELSE I32Add(acc.val, xs[Len(xs)])

\* Iterator::sum over the per-entry efficiencies: a left fold with the f64 operator +
RECURSIVE EfficiencySum(_)
EfficiencySum(entries) ==
    IF entries = <<>> THEN F64Ok(RatZero)
    ELSE LET acc == EfficiencySum(SubSeq(entries, 1, Len(entries) - 1))
             entry == entries[Len(entries)]
             e == calc_efficiency(entry.total_sleep_minutes, entry.awake_minutes,
                                  entry.sleep_latency_minutes)
         IN  IF acc.panic \/ e.panic THEN F64Panic ELSE F64Ok(RatAdd(acc.val, e.val))

\* the efficiency of the pooled totals in the place of the mean of the efficiencies
pooled_average_efficiency(entries) ==
    IF entries = <<>> THEN F64Ok(RatZero)
    ELSE LET sleep == I32Sum([i \in 1..Len(entries) |-> entries[i].total_sleep_minutes])
             awake == I32Sum([i \in 1..Len(entries) |-> entries[i].awake_minutes])
             latency == I32Sum([i \in 1..Len(entries) |->
                                   entries[i].sleep_latency_minutes])
         IN  IF sleep.panic \/ awake.panic \/ latency.panic THEN F64Panic
             ELSE calc_efficiency(sleep.val, awake.val, latency.val)

calculate_average_efficiency(entries) ==
    IF entries = <<>> THEN F64Ok(RatZero)
    ELSE LET total_efficiency == EfficiencySum(entries)
         IN  IF total_efficiency.panic THEN F64Panic
             ELSE F64Ok(RatDiv(total_efficiency.val, FromInt(Len(entries))))

calculate_average_quality(entries) ==
    IF entries = <<>> THEN F64Ok(RatZero)
    ELSE LET total_quality ==
                 I32Sum([i \in 1..Len(entries) |-> entries[i].sleep_quality_score])
         IN  IF total_quality.panic THEN F64Panic
             ELSE F64Ok(RatDiv(FromInt(total_quality.val), FromInt(Len(entries))))

\* the naps added to the night's sleep
average_sleep_hours_with_naps(entries) ==
    IF entries = <<>> THEN F64Ok(RatZero)
    ELSE LET total_minutes ==
                 I32Sum([i \in 1..Len(entries) |->
                            entries[i].total_sleep_minutes + entries[i].nap_minutes])
         IN  IF total_minutes.panic THEN F64Panic
             ELSE F64Ok(RatDiv(RatDiv(FromInt(total_minutes.val), FromInt(Len(entries))),
                               FromInt(60)))

calculate_average_sleep_hours(entries) ==
    IF entries = <<>> THEN F64Ok(RatZero)
    ELSE LET total_minutes ==
                 I32Sum([i \in 1..Len(entries) |-> entries[i].total_sleep_minutes])
         IN  IF total_minutes.panic THEN F64Panic
             ELSE F64Ok(RatDiv(RatDiv(FromInt(total_minutes.val), FromInt(Len(entries))),
                               FromInt(60)))

-----------------------------------------------------------------------------
(* calls of the core: the arguments are drawn when the state is set up, one *)
(* action per function applies it                                           *)

\* the fields of struct Answer that the statistics read, and nap_minutes
Answer(total, awake, latency, quality, nap) ==
    [total_sleep_minutes |-> total, awake_minutes |-> awake,
     sleep_latency_minutes |-> latency, sleep_quality_score |-> quality,
     nap_minutes |-> nap]

NoArgs == [fn |-> "none", s1 |-> <<>>, s2 |-> <<>>, sleep |-> 0, awake |-> 0,
           latency |-> 0, entries |-> <<>>]

StrArgs(f, a, b) == [NoArgs EXCEPT !.fn = f, !.s1 = a, !.s2 = b]
EffArgs(s, a, l) == [NoArgs EXCEPT !.fn = "calc_efficiency", !.sleep = s, !.awake = a,
                                   !.latency = l]
EntriesArgs(f, es) == [NoArgs EXCEPT !.fn = f, !.entries = es]

NoRet == [status |-> "none", i |-> 0, f |-> RatZero]
RetInt(r) == IF r.panic THEN [status |-> "panic", i |-> 0, f |-> RatZero]
             ELSE [status |-> "ok", i |-> r.val, f |-> RatZero]
RetF64(r) == IF r.panic THEN [status |-> "panic", i |-> 0, f |-> RatZero]
             ELSE [status |-> "ok", i |-> 0, f |-> r.val]

Pending(f) == input.fn = f /\ ret.status = "none"

CallToMinutes ==
    /\ Pending("to_minutes")
    /\ ret' = RetInt(to_minutes(input.s1))
    /\ UNCHANGED <<overflow_checks, input>>
    /\ UNCHANGED appVars

CallCalcWindow ==
    /\ Pending("calc_window")
    /\ ret' = RetInt(calc_window(input.s1, input.s2))
    /\ UNCHANGED <<overflow_checks, input>>
    /\ UNCHANGED appVars

CallCalcEfficiency ==
    /\ Pending("calc_efficiency")
    /\ ret' = RetF64(calc_efficiency(input.sleep, input.awake, input.latency))
    /\ UNCHANGED <<overflow_checks, input>>
    /\ UNCHANGED appVars

CallAverageEfficiency ==
    /\ Pending("calculate_average_efficiency")
    /\ ret' = RetF64(calculate_average_efficiency(input.entries))
    /\ UNCHANGED <<overflow_checks, input>>
    /\ UNCHANGED appVars

CallAverageQuality ==
    /\ Pending("calculate_average_quality")
    /\ ret' = RetF64(calculate_average_quality(input.entries))
    /\ UNCHANGED <<overflow_checks, input>>
    /\ UNCHANGED appVars

CallAverageSleepHours ==
    /\ Pending("calculate_average_sleep_hours")
    /\ ret' = RetF64(calculate_average_sleep_hours(input.entries))
    /\ UNCHANGED <<overflow_checks, input>>
    /\ UNCHANGED appVars

-----------------------------------------------------------------------------
(* the inputs of the calls *)

MaxStrLen == 4
MaxHour == 23
MaxMinutes == 10
MaxNegMinutes == 2
MaxEntries == 2

Alphabet == {"0", "7", ":", "x", "-"}
AlphabetStrings == UNION {[1..n -> Alphabet] : n \in 0..MaxStrLen}

\* the time strings of the documentation, and malformed ones
SampleStrings ==
    { <<"0", "7", ":", "3", "0">>,
      <<"0", "0", ":", "0", "0">>,
      <<"1", "2", ":", "0", "0">>,
      <<"b", "a", "d">>,
      <<"1", ":", "2", ":", "3">>,
      <<"9", "9", ":", "9", "9">>,
      <<"2", "2", ":", "3", "0">>,
      <<"0", "7", ":", "0", "0">>,
      <<"0", "7", ":", "1", "5">>,
      <<"0", "7", ":", "x", "x">>,
      <<"b", "a", "d", ":", "3", "0">>,
      <<"7", ":">>,
      <<":", "3", "0">>,
      <<"+", "7", ":", "3", "0">>,
      <<" ", "7", ":", "3", "0">>,
      <<"-", "1", ":", "3", "0">>,
      <<"7", ":", "-", "5">>,
      <<"0", "0", "7", ":", "0", "0", "5">>,
      <<"0", "7", "3", "0">> }

\* "HH:MM" for an hour and a minute below 100
HHMM(h, m) ==
    <<DigitChars[(h \div 10) + 1], DigitChars[(h % 10) + 1], ":",
      DigitChars[(m \div 10) + 1], DigitChars[(m % 10) + 1]>>

MinuteSamples == {0, 1, 30, 59}
ClockStrings == {HHMM(h, m) : h \in 0..MaxHour, m \in MinuteSamples}

\* malformed and out-of-range times given to calc_window
WindowSamples ==
    { <<"b", "a", "d">>,
      <<"0", "7", ":", "x", "x">>,
      <<"-", "1", ":", "3", "0">>,
      <<"9", "9", ":", "9", "9">>,
      <<"1", ":", "2", ":", "3">> }

WindowStrings == ClockStrings \cup WindowSamples

MinuteValues == (-MaxNegMinutes..MaxMinutes) \cup {20, 450}

EfficiencyPool ==
    {Answer(t, a, l, 3, 0) : t \in {0, 1, 2, 450}, a \in {0, 1, 20}, l \in {0, 10}}
QualityPool ==
    {Answer(450, 20, 10, q, 0) : q \in {-1, 0, 1, 2, 3, 4, 5, 100}}
SleepHoursPool ==
    {Answer(t, 20, 10, 3, n) : t \in {-30, 0, 1, 450, 480}, n \in {0, 30, 90}}

Entries(pool, n) == UNION {[1..k -> pool] : k \in 0..n}

NominalInputs ==
    {StrArgs("to_minutes", s, <<>>) :
        s \in AlphabetStrings \cup SampleStrings \cup ClockStrings}
    \cup {StrArgs("calc_window", b, w) : b \in WindowStrings, w \in WindowStrings}
    \cup {EffArgs(s, a, l) : s \in MinuteValues, a \in MinuteValues, l \in MinuteValues}
    \cup {EntriesArgs("calculate_average_efficiency", es) :
            es \in Entries(EfficiencyPool, MaxEntries)}
    \cup {EntriesArgs("calculate_average_quality", es) :
            es \in Entries(QualityPool, MaxEntries)}
    \cup {EntriesArgs("calculate_average_sleep_hours", es) :
            es \in Entries(SleepHoursPool, MaxEntries)}

\* time strings whose hours * 60 + minutes is at or beyond the ends of the i32 range
BoundaryStrings ==
    { <<"3", "5", "7", "9", "1", "3", "9", "5", ":", "0", "0">>,
      <<"3", "5", "7", "9", "1", "3", "9", "4", ":", "0", "7">>,
      <<"3", "5", "7", "9", "1", "3", "9", "4", ":", "0", "8">>,
      <<"-", "3", "5", "7", "9", "1", "3", "9", "4", ":", "-", "8">>,
      <<"-", "3", "5", "7", "9", "1", "3", "9", "4", ":", "-", "9">>,
      <<"-", "3", "5", "7", "9", "1", "3", "9", "5", ":", "0">>,
      <<"2", "1", "4", "7", "4", "8", "3", "6", "4", "7", ":", "0">>,
      <<"0", ":", "2", "1", "4", "7", "4", "8", "3", "6", "4", "7">>,
      <<"1", ":", "2", "1", "4", "7", "4", "8", "3", "6", "4", "7">>,
      <<"2", "1", "4", "7", "4", "8", "3", "6", "4", "8", ":", "5">>,
      <<"0", ":", "2", "1", "4", "7", "4", "8", "3", "0", "0", "0">>,
      <<"0", ":", "-", "1">>,
      <<"0", "7", ":", "3", "0">>,
      <<"9", "9", "9", "9", "9", "9", "9", "9", "9", "9", "9", ":", "1">> }

\* field values whose sums leave the i32 range
BoundaryTriples ==
    {<<s, I32_MAX, I32_MAX>> : s \in 0..MaxMinutes}
    \cup {<<s, I32_MIN, I32_MIN>> : s \in (-MaxMinutes)..0}
    \cup {<<450, 20, 10>>}

BoundaryEfficiencyPool ==
    {Answer(5, I32_MAX, I32_MAX, 3, 0), Answer(2, I32_MAX, I32_MAX, 3, 0),
     Answer(450, 20, 10, 3, 0)}
BoundaryQualityPool ==
    {Answer(450, 20, 10, q, 0) : q \in {I32_MAX, 2, -I32_MAX, -3}}
BoundarySleepHoursPool ==
    {Answer(t, 20, 10, 3, 30) : t \in {I32_MAX, 2, -I32_MAX, -3}}

BoundaryInputs ==
    {StrArgs("to_minutes", s, <<>>) : s \in BoundaryStrings}
    \cup {StrArgs("calc_window", b, w) : b \in BoundaryStrings, w \in BoundaryStrings}
    \cup {EffArgs(t[1], t[2], t[3]) : t \in BoundaryTriples}
    \cup {EntriesArgs("calculate_average_efficiency", es) :
            es \in Entries(BoundaryEfficiencyPool, 2)}
    \cup {EntriesArgs("calculate_average_quality", es) :
            es \in Entries(BoundaryQualityPool, 2)}
    \cup {EntriesArgs("calculate_average_sleep_hours", es) :
            es \in Entries(BoundarySleepHoursPool, 2)}

-----------------------------------------------------------------------------
(* the interactive program: run_app, enter_sleep_data, show_efficiency_averages *)

Whitespace == {" ", "\t", "\n", "\r"}

RECURSIVE TrimStart(_)
TrimStart(s) ==
    IF s # <<>> /\ Head(s) \in Whitespace THEN TrimStart(Tail(s)) ELSE s

RECURSIVE TrimEnd(_)
TrimEnd(s) ==
    IF s # <<>> /\ s[Len(s)] \in Whitespace THEN TrimEnd(SubSeq(s, 1, Len(s) - 1)) ELSE s

\* str::trim
Trim(s) == TrimEnd(TrimStart(s))

UpperChars == <<"A", "B", "C", "D", "E", "F", "G", "H", "I", "J", "K", "L", "M",
                "N", "O", "P", "Q", "R", "S", "T", "U", "V", "W", "X", "Y", "Z">>
LowerChars == <<"a", "b", "c", "d", "e", "f", "g", "h", "i", "j", "k", "l", "m",
                "n", "o", "p", "q", "r", "s", "t", "u", "v", "w", "x", "y", "z">>

\* str::to_lowercase
to_lowercase(s) ==
    [i \in 1..Len(s) |->
        IF \E k \in 1..26 : UpperChars[k] = s[i]
        THEN LowerChars[CHOOSE k \in 1..26 : UpperChars[k] = s[i]]
        ELSE s[i]]

\* the words is_exit_command matches
ExitWords ==
    { <<"e", "x", "i", "t">>,
      <<"q", "u", "i", "t">>,
      <<"q">>,
      <<"s", "t", "o", "p">> }

\* is_exit_command without the lowercasing
is_exit_command_case_sensitive(inp) == inp \in ExitWords

is_exit_command(inp) ==
    LET input_lower == to_lowercase(inp)
    IN  input_lower \in ExitWords

\* get_input once the line is read: Err(UserExit) or Ok(trimmed line)
get_input(line) ==
    LET trimmed_input == Trim(line)
    IN  IF is_exit_command(trimmed_input)
        THEN [err |-> "UserExit", text |-> <<>>]
        ELSE [err |-> "none", text |-> trimmed_input]

\* get_number_input with unwrap_or(0) in place of the retry
get_number_input_or_zero(line) ==
    LET inp == get_input(line)
    IN  IF inp.err # "none" THEN [kind |-> "exit", val |-> 0]
        ELSE [kind |-> "value", val |-> UnwrapOr(ParseI32(inp.text), 0)]

\* one turn of the loop of get_number_input on the line read: Err(UserExit),
\* Ok(number), or the retry message and another turn
get_number_input(line) ==
    LET inp == get_input(line)
    IN  IF inp.err # "none" THEN [kind |-> "exit", val |-> 0]
        ELSE IF inp.text = <<>> THEN [kind |-> "value", val |-> 0]
        ELSE LET parsed == ParseI32(inp.text)
             IN  IF parsed.ok THEN [kind |-> "value", val |-> parsed.val]
                 ELSE [kind |-> "retry", val |-> 0]

\* the ten prompts of enter_sleep_data, in order: the local each binds, and whether
\* it is read by get_number_input
PromptLocal == <<"bedtime", "wake_target", "wake_actual", "nap", "quality",
                 "total_sleep_str", "awake", "latency", "wake_count", "notes">>
NumberPrompts == {4, 5, 7, 8, 9}
LastPrompt == Len(PromptLocal)

NoLocals == [bedtime |-> <<>>, wake_target |-> <<>>, wake_actual |-> <<>>, nap |-> 0,
             quality |-> 0, total_sleep_str |-> <<>>, awake |-> 0, latency |-> 0,
             wake_count |-> 0, notes |-> <<>>]

NoLine == <<"(none)">>

\* a row of table answer; entry_date is the day, counted from today = 0
Row(id, entry_date, l, total_min) ==
    [id |-> id, entry_date |-> entry_date, bedtime |-> l.bedtime,
     wake_time_target |-> l.wake_target, wake_time_actual |-> l.wake_actual,
     notes |-> l.notes, nap_minutes |-> l.nap, sleep_quality_score |-> l.quality,
     total_sleep_minutes |-> total_min, awake_minutes |-> l.awake,
     sleep_latency_minutes |-> l.latency, wake_count |-> l.wake_count]

\* AnswerDao::get_recent_entries: the rows dated within the last `days` days
get_recent_entries(days) ==
    SelectSeq(db, LAMBDA row : row.entry_date >= -days)

\* the statistics show_efficiency_averages computes over a window, when it has rows:
\* whether one of them panics
WindowPanics(entries) ==
    /\ entries # <<>>
    /\ \/ calculate_average_efficiency(entries).panic
       \/ calculate_average_quality(entries).panic
       \/ calculate_average_sleep_hours(entries).panic

\* show_efficiency_averages up to its closing prompt: "panic", or "continue"
show_efficiency_averages ==
    LET entries_7_days == get_recent_entries(7)
        entries_30_days == get_recent_entries(30)
        summary == SubSeq(entries_7_days, 1, IF Len(entries_7_days) < 5
                                             THEN Len(entries_7_days) ELSE 5)
    IN  IF \/ WindowPanics(entries_7_days)
           \/ WindowPanics(entries_30_days)
           \/ \E i \in 1..Len(summary) :
                  calc_efficiency(summary[i].total_sleep_minutes, summary[i].awake_minutes,
                                  summary[i].sleep_latency_minutes).panic
        THEN "panic" ELSE "continue"

Finish(result) ==
    /\ pc' = "done"
    /\ outcome' = result

\* AnswerDao::new and create_table, then the menu is printed
OpenDatabase ==
    /\ pc = "start"
    /\ \/ pc' = "menu" /\ UNCHANGED outcome
       \/ Finish("Database")
    /\ UNCHANGED <<coreVars, prompt, locals, last_line, db, insert_calls, retry_message>>

\* run_app reads the menu choice and dispatches on it
ReadChoice(line) ==
    /\ pc = "menu"
    /\ last_line' = line
    /\ LET choice == Trim(line) IN
       IF is_exit_command(choice) THEN Finish("UserExit") /\ UNCHANGED prompt
       ELSE IF choice = <<"2">>
       THEN \/ Finish("Database") /\ UNCHANGED prompt
            \/ /\ show_efficiency_averages = "panic"
               /\ Finish("panic") /\ UNCHANGED prompt
            \/ /\ show_efficiency_averages = "continue"
               /\ pc' = "continue" /\ UNCHANGED <<outcome, prompt>>
       ELSE pc' = "prompt" /\ prompt' = 1 /\ UNCHANGED outcome
    /\ UNCHANGED <<coreVars, locals, db, insert_calls, retry_message>>

\* enter_sleep_data from the last answer to its return: to_minutes, calc_efficiency,
\* dao.insert
SaveEntry(l) ==
    LET total_min == to_minutes(l.total_sleep_str)
        efficiency == IF total_min.panic THEN F64Panic
                      ELSE calc_efficiency(total_min.val, l.awake, l.latency)
    IN  IF total_min.panic \/ efficiency.panic
        THEN Finish("panic") /\ UNCHANGED <<db, insert_calls>>
        ELSE /\ insert_calls' = insert_calls + 1
             /\ \/ Finish("Database") /\ UNCHANGED db
                \/ /\ db' = Append(db, Row(Len(db) + 1, 0, l, total_min.val))
                   /\ Finish("Ok")

\* what follows an answer to the prompt: the next prompt, or the save after the last
Answered(l) ==
    /\ locals' = l
    /\ prompt' = prompt + 1
    /\ IF prompt = LastPrompt THEN SaveEntry(l)
       ELSE UNCHANGED <<pc, outcome, db, insert_calls>>

\* a prompt read by get_input
AnswerTextPrompt(line) ==
    /\ pc = "prompt"
    /\ prompt \notin NumberPrompts
    /\ last_line' = line
    /\ LET r == get_input(line) IN
       IF r.err # "none"
       THEN Finish("UserExit") /\ UNCHANGED <<prompt, locals, db, insert_calls>>
       ELSE Answered([locals EXCEPT ![PromptLocal[prompt]] = r.text])
    /\ UNCHANGED <<coreVars, retry_message>>

\* a prompt read by get_number_input: one line of its loop
AnswerNumberPrompt(line) ==
    /\ pc = "prompt"
    /\ prompt \in NumberPrompts
    /\ last_line' = line
    /\ LET r == get_number_input(line) IN
       /\ retry_message' = (r.kind = "retry")
       /\ CASE r.kind = "exit" ->
                   Finish("UserExit") /\ UNCHANGED <<prompt, locals, db, insert_calls>>
            [] r.kind = "retry" ->
                   UNCHANGED <<pc, outcome, prompt, locals, db, insert_calls>>
            [] r.kind = "value" ->
                   Answered([locals EXCEPT ![PromptLocal[prompt]] = r.val])
    /\ UNCHANGED coreVars

\* the closing get_input("") of show_efficiency_averages
ReadContinue(line) ==
    /\ pc = "continue"
    /\ last_line' = line
    /\ Finish(IF get_input(line).err # "none" THEN "UserExit" ELSE "Ok")
    /\ UNCHANGED <<coreVars, prompt, locals, db, insert_calls, retry_message>>

\* flushing stdout or reading stdin fails: the ? operator returns AppError::Io
StdioError ==
    /\ pc \in {"menu", "prompt", "continue"}
    /\ Finish("Io")
    /\ UNCHANGED <<coreVars, prompt, locals, last_line, db, insert_calls, retry_message>>

\* lines that are exit commands once trimmed and lowercased
ExitLines ==
    { <<"e", "x", "i", "t", "\n">>,
      <<"q", "u", "i", "t", "\n">>,
      <<"q", "\n">>,
      <<"s", "t", "o", "p", "\n">>,
      <<"E", "X", "I", "T", "\n">>,
      <<" ", " ", "Q", "u", "i", "t", " ", "\n">>,
      <<"Q">>,
      <<"s", "T", "o", "P", "\r", "\n">> }
\* other lines typed at the menu
MenuLines ==
    { <<"1", "\n">>,
      <<"2", "\n">>,
      <<"3", "\n">>,
      <<"\n">>,
      <<"e", "x", "i", "t", " ", "n", "o", "w", "\n">> }
\* other lines typed at a text prompt
TimeLines ==
    { <<"2", "2", ":", "3", "0", "\n">>,
      <<"e", "x", "i", "t", "s", "\n">> }
\* other lines typed at the total-sleep prompt; 71582788 * 60 + 466 = 2^32 + 450
SleepLines ==
    { <<"0", "7", ":", "3", "0", "\n">>,
      <<"7", "1", "5", "8", "2", "7", "8", "8", ":", "4", "6", "6", "\n">> }
\* other lines typed at the quality and wake-count prompts
NumberLines ==
    { <<"2", "0", "\n">>,
      <<"\n">>,
      <<"a", "b", "c", "\n">> }
\* other lines typed at the awake and latency prompts
SignedLines ==
    { <<"2", "0", "\n">>,
      <<"-", "5", "\n">>,
      <<"q", "1", "\n">> }

\* other lines typed at the nap prompt; <<>> is what read_line leaves at end of
\* input
NapLines ==
    { <<"2", "0", "\n">>,
      <<"\n">>,
      <<>>,
      <<" ", " ", "\t", "\r", "\n">>,
      <<" ", "2", "0", " ", "\n">>,
      <<"+", "2", "0", "\n">>,
      <<"0", "2", "0", "\n">>,
      <<"2", "1", "4", "7", "4", "8", "3", "6", "4", "7", "\n">>,
      <<"2", "1", "4", "7", "4", "8", "3", "6", "4", "8", "\n">>,
      <<"-", "2", "1", "4", "7", "4", "8", "3", "6", "4", "8", "\n">>,
      <<"-", "2", "1", "4", "7", "4", "8", "3", "6", "4", "9", "\n">>,
      <<"a", "b", "c", "\n">>,
      <<"1", ".", "5", "\n">>,
      <<"1", " ", "2", "\n">>,
      <<"-", "\n">>,
      <<"7", "x", "\n">>,
      <<"e", "x", "i", "t", " ", "n", "o", "w", "\n">> }

\* the lines the user may type at each prompt
PromptLines(k) ==
    ExitLines \cup
    (CASE k = 6 -> SleepLines
       [] k = 4 -> NapLines
       [] k \in {7, 8} -> SignedLines
       [] k \in NumberPrompts -> NumberLines
       [] OTHER -> TimeLines)

\* tracker.sqlite as earlier runs left it
StoredDatabases ==
    { <<>>,
      <<Row(1, -3, [NoLocals EXCEPT !.nap = 30, !.quality = 4, !.awake = 20,
                                    !.latency = 10], 450)>> }

-----------------------------------------------------------------------------
(* the specifications *)

\* the program is not run: only the core is called
AppIdle ==
    /\ pc = "idle"
    /\ prompt = 0
    /\ locals = NoLocals
    /\ last_line = NoLine
    /\ outcome = "running"
    /\ db = <<>>
    /\ insert_calls = 0
    /\ retry_message = FALSE

Init ==
    /\ overflow_checks \in BOOLEAN
    /\ input \in NominalInputs
    /\ ret = NoRet
    /\ AppIdle

InitBoundary ==
    /\ overflow_checks \in BOOLEAN
    /\ input \in BoundaryInputs
    /\ ret = NoRet
    /\ AppIdle

\* main calls run_app
InitApp ==
    /\ overflow_checks \in BOOLEAN
    /\ input = NoArgs
    /\ ret = NoRet
    /\ pc = "start"
    /\ prompt = 0
    /\ locals = NoLocals
    /\ last_line = NoLine
    /\ outcome = "running"
    /\ db \in StoredDatabases
    /\ insert_calls = 0
    /\ retry_message = FALSE

NextApp ==
    \/ OpenDatabase
    \/ \E line \in ExitLines \cup MenuLines : ReadChoice(line)
    \/ \E line \in PromptLines(prompt) : AnswerTextPrompt(line)
    \/ \E line \in PromptLines(prompt) : AnswerNumberPrompt(line)
    \/ \E line \in ExitLines \cup MenuLines : ReadContinue(line)
    \/ StdioError

SpecApp == InitApp /\ [][NextApp]_vars

Next ==
    \/ CallToMinutes
    \/ CallCalcWindow
    \/ CallCalcEfficiency
    \/ CallAverageEfficiency
    \/ CallAverageQuality
    \/ CallAverageSleepHours

Spec == Init /\ [][Next]_vars

SpecBoundary == InitBoundary /\ [][Next]_vars

-----------------------------------------------------------------------------
(* the claims *)

Returned(f) == input.fn = f /\ ret.status # "none"

\* p = q as numbers
RatEq(p, q) == p.num * q.den = q.num * p.den

\* the sum of a sequence of integers, from its head
RECURSIVE SeqSum(_)
SeqSum(xs) == IF xs = <<>> THEN 0 ELSE Head(xs) + SeqSum(Tail(xs))

\* the sum of a sequence of rationals, from its head
RECURSIVE RatSeqSum(_)
RatSeqSum(qs) == IF qs = <<>> THEN RatZero ELSE RatAdd(Head(qs), RatSeqSum(Tail(qs)))

\* r is v rounded to two significant figures: r = +-m * 10^(e-1) for the decade e of
\* |v| (10^e <= |v| < 10^(e+1)) and an integer m nearest to |v| / 10^(e-1)
IsTwoSigFigRounding(v, r) ==
    IF v.num = 0 THEN r = RatZero
    ELSE \E e \in -4..6 :
            /\ RatLe(Powi10(e), RatAbs(v))
            /\ RatLt(RatAbs(v), Powi10(e + 1))
            /\ \E m \in 10..100 :
                  /\ RatEq(RatAbs(r), RatMul(FromInt(m), Powi10(e - 1)))
                  /\ (r.num < 0) = (v.num < 0)
                  /\ LET w == RatMul(RatAbs(v), Powi10(1 - e))
                     IN  /\ RatLe(Rat(2 * m - 1, 2), w)
                         /\ RatLe(w, Rat(2 * m + 1, 2))

\* sleep / (sleep + awake + latency) * 100 of the call's arguments, unrounded
RawEfficiency(s, a, l) == Rat(100 * s, s + a + l)

\* C1: calc_efficiency returns 0 when sleep + awake + latency = 0, and otherwise
\* sleep / (sleep + awake + latency) * 100 rounded to two significant figures.
C1_Efficiency ==
    Returned("calc_efficiency") =>
        /\ ret.status = "ok"
        /\ LET tib == input.sleep + input.awake + input.latency
           IN  IF tib = 0 THEN ret.f = RatZero
               ELSE IsTwoSigFigRounding(
                        RawEfficiency(input.sleep, input.awake, input.latency), ret.f)

\* a call whose result is the two-significant-figure value and differs from the
\* value rounded to two decimal places
C1_Witness ==
    /\ Returned("calc_efficiency")
    /\ ret.status = "ok"
    /\ input.sleep + input.awake + input.latency # 0
    /\ input.sleep > 0 /\ input.awake > 0
    /\ ~RatEq(ret.f, round_to_2_decimals(
                  RawEfficiency(input.sleep, input.awake, input.latency)))

\* the efficiencies of the entries, one calc_efficiency each
EntryEfficiencies(entries) ==
    [i \in 1..Len(entries) |->
        calc_efficiency(entries[i].total_sleep_minutes, entries[i].awake_minutes,
                        entries[i].sleep_latency_minutes).val]

\* the efficiency of the pooled totals of the entries
PooledEfficiency(entries) ==
    calc_efficiency(
        SeqSum([i \in 1..Len(entries) |-> entries[i].total_sleep_minutes]),
        SeqSum([i \in 1..Len(entries) |-> entries[i].awake_minutes]),
        SeqSum([i \in 1..Len(entries) |-> entries[i].sleep_latency_minutes])).val

\* the mean of the unrounded efficiencies, rounded afterwards
AverageThenRound(entries) ==
    round_to_2_sig_figs(
        RatDiv(RatSeqSum([i \in 1..Len(entries) |->
                   LET e == entries[i]
                       tib == e.total_sleep_minutes + e.awake_minutes
                                  + e.sleep_latency_minutes
                   IN  IF tib = 0 THEN RatZero
                       ELSE RawEfficiency(e.total_sleep_minutes, e.awake_minutes,
                                          e.sleep_latency_minutes)]),
               FromInt(Len(entries))))

\* C2: calculate_average_efficiency returns 0 for no entries, and otherwise the
\* arithmetic mean of the entries' calc_efficiency values, each rounded before the sum.
C2_AverageEfficiency ==
    Returned("calculate_average_efficiency") =>
        /\ ret.status = "ok"
        /\ IF input.entries = <<>> THEN ret.f = RatZero
           ELSE RatEq(RatMul(ret.f, FromInt(Len(input.entries))),
                      RatSeqSum(EntryEfficiencies(input.entries)))

\* an average that is neither the pooled efficiency nor the rounded mean of the
\* unrounded efficiencies
C2_Witness ==
    /\ Returned("calculate_average_efficiency")
    /\ ret.status = "ok"
    /\ Len(input.entries) >= 2
    /\ ~RatEq(ret.f, PooledEfficiency(input.entries))
    /\ ~RatEq(ret.f, AverageThenRound(input.entries))

\* to_minutes(hhmm), for strings it does not panic on
Minutes(hhmm) == to_minutes(hhmm).val

T0700 == <<"0", "7", ":", "0", "0">>
T2230 == <<"2", "2", ":", "3", "0">>

\* C3: to_minutes returns 0 if the string does not split on ':' into exactly two
\* parts or if either part fails to parse as an integer, and hours * 60 + minutes
\* otherwise.
C3_ToMinutes ==
    Returned("to_minutes") =>
        /\ ret.status = "ok"
        /\ LET parts == Split(input.s1)
           IN  IF Len(parts) # 2 THEN ret.i = 0
               ELSE IF ~ParseI32(parts[1]).ok \/ ~ParseI32(parts[2]).ok THEN ret.i = 0
               ELSE ret.i = ParseI32(parts[1]).val * 60 + ParseI32(parts[2]).val

\* C4: calc_window returns wake - bedtime when wake > bedtime and wake + 1440 -
\* bedtime when wake <= bedtime (both in minutes, by to_minutes): equal times give
\* 1440, ("22:30", "07:00") gives 510, ("07:00", "22:30") gives 930, and two times
\* within 0..1439 give a window within 1..1440.
C4_Window ==
    Returned("calc_window") =>
        /\ ret.status = "ok"
        /\ LET b == Minutes(input.s1)
               w == Minutes(input.s2)
           IN  /\ w > b => ret.i = w - b
               /\ w <= b => ret.i = w + 1440 - b
               /\ w = b => ret.i = 1440
               /\ (b \in 0..1439 /\ w \in 0..1439) => ret.i \in 1..1440
        /\ (input.s1 = T2230 /\ input.s2 = T0700) => ret.i = 510
        /\ (input.s1 = T0700 /\ input.s2 = T2230) => ret.i = 930

\* calc_window called with equal bedtime and wake time
C4_Witness ==
    /\ Returned("calc_window")
    /\ input.s1 = T2230 /\ input.s2 = T2230
    /\ ret.status = "ok" /\ ret.i = 1440

\* C5 as stated: calc_efficiency(450, 20, 10) returns 93.0.
C5_Returns93 ==
    (Returned("calc_efficiency") /\ input = EffArgs(450, 20, 10)) =>
        (ret.status = "ok" /\ ret.f = FromInt(93))

\* C5 as amended: calc_efficiency(450, 20, 10) returns 94.0 (93.75 to two
\* significant figures).
C5_Returns94 ==
    (Returned("calc_efficiency") /\ input = EffArgs(450, 20, 10)) =>
        (ret.status = "ok" /\ ret.f = FromInt(94))

\* calc_efficiency(450, 20, 10) has returned
C5_Witness ==
    /\ Returned("calc_efficiency")
    /\ input = EffArgs(450, 20, 10)
    /\ ret.status = "ok"

\* C6: the percentage calc_efficiency returns lies within 0..100, negative
\* arguments included.
C6_Range ==
    (Returned("calc_efficiency") /\ ret.status = "ok") =>
        (RatLe(RatZero, ret.f) /\ RatLe(ret.f, FromInt(100)))

\* C7: no core function fails, whatever the strings and the 32-bit field values:
\* each call returns a value.
C7_NeverFails == ret.status # "panic"

\* C8: calculate_average_sleep_hours returns 0 for no entries and otherwise (sum of
\* total_sleep_minutes / number of entries) / 60, whatever the nap minutes;
\* calculate_average_quality returns 0 for no entries and otherwise the unrounded
\* mean of sleep_quality_score.
C8_Averages ==
    /\ Returned("calculate_average_sleep_hours") =>
          /\ ret.status = "ok"
          /\ IF input.entries = <<>> THEN ret.f = RatZero
             ELSE RatEq(RatMul(ret.f, FromInt(60 * Len(input.entries))),
                        FromInt(SeqSum([i \in 1..Len(input.entries) |->
                                           input.entries[i].total_sleep_minutes])))
    /\ Returned("calculate_average_quality") =>
          /\ ret.status = "ok"
          /\ IF input.entries = <<>> THEN ret.f = RatZero
             ELSE RatEq(RatMul(ret.f, FromInt(Len(input.entries))),
                        FromInt(SeqSum([i \in 1..Len(input.entries) |->
                                           input.entries[i].sleep_quality_score])))

\* the average sleep hours of entries that have naps
C8_Witness ==
    /\ Returned("calculate_average_sleep_hours")
    /\ ret.status = "ok"
    /\ Len(input.entries) >= 2
    /\ \E i \in 1..Len(input.entries) : input.entries[i].nap_minutes > 0
    /\ ret.f.num > 0

\* the mean of (total_sleep_minutes + nap_minutes), divided by 60
MeanIncludingNaps(entries) ==
    IF entries = <<>> THEN RatZero
    ELSE Rat(SeqSum([i \in 1..Len(entries) |->
                 entries[i].total_sleep_minutes + entries[i].nap_minutes]),
             60 * Len(entries))

\* the aggregations over entries that the program has
AverageFunctions ==
    {"calculate_average_efficiency", "calculate_average_quality",
     "calculate_average_sleep_hours"}

ApplyAverage(f, entries) ==
    CASE f = "calculate_average_efficiency" -> calculate_average_efficiency(entries)
      [] f = "calculate_average_quality" -> calculate_average_quality(entries)
      [] f = "calculate_average_sleep_hours" -> calculate_average_sleep_hours(entries)

\* C9: the program has an operation that returns the mean of (total_sleep_minutes +
\* nap_minutes) divided by 60, 0 for no entries, and at least
\* calculate_average_sleep_hours when no nap is negative.
C9_IncludingNaps ==
    Returned("calculate_average_sleep_hours") =>
        \E f \in AverageFunctions :
            LET r == ApplyAverage(f, input.entries)
            IN  /\ ~r.panic
                /\ RatEq(r.val, MeanIncludingNaps(input.entries))

\* the text answers bound so far are not exit commands
NoExitAnswer ==
    \A k \in (1..LastPrompt) \ NumberPrompts :
        to_lowercase(locals[PromptLocal[k]]) \notin ExitWords

\* C10: an exit command typed at the menu or at any of the ten prompts ends the run
\* with UserExit and nothing inserted; dao.insert is called at most once, and only
\* after all ten prompts have returned an answer that is no exit command.
C10_ExitInsertsNothing ==
    /\ insert_calls <= 1
    /\ last_line \in ExitLines =>
          (outcome = "UserExit" /\ pc = "done" /\ insert_calls = 0)
    /\ outcome = "UserExit" => (insert_calls = 0 /\ db \in StoredDatabases)
    /\ insert_calls = 0 => db \in StoredDatabases
    /\ insert_calls = 1 =>
          (prompt = LastPrompt + 1 /\ last_line \notin ExitLines /\ NoExitAnswer)

\* an exit command typed at the notes prompt, after nine answers
C10_Witness ==
    /\ prompt = LastPrompt
    /\ last_line \in ExitLines
    /\ outcome = "UserExit"
    /\ insert_calls = 0

\* the lines that spell a decimal integer of the i32 range between optional
\* surrounding whitespace, each with the integer it spells
EnteredNumbers ==
    { <<<<"2", "0", "\n">>, 20>>,
      <<<<" ", "2", "0", " ", "\n">>, 20>>,
      <<<<"+", "2", "0", "\n">>, 20>>,
      <<<<"-", "5", "\n">>, -5>>,
      <<<<"0", "2", "0", "\n">>, 20>>,
      <<<<"2", "1", "4", "7", "4", "8", "3", "6", "4", "7", "\n">>, I32_MAX>>,
      <<<<"-", "2", "1", "4", "7", "4", "8", "3", "6", "4", "8", "\n">>, I32_MIN>> }

\* nothing but whitespace on the line, or no line at all
IsBlankLine(line) == \A i \in 1..Len(line) : line[i] \in Whitespace

\* the locals other than the one the prompt binds keep their values
OtherLocalsKept ==
    \A k \in 1..LastPrompt : k # prompt => locals'[PromptLocal[k]] = locals[PromptLocal[k]]

\* get_number_input returned Ok(n) to enter_sleep_data, which bound it and went on
NumberReturned(n) ==
    /\ locals'[PromptLocal[prompt]] = n
    /\ OtherLocalsKept
    /\ prompt' = prompt + 1
    /\ outcome' # "UserExit"
    /\ ~retry_message'

\* C11: a line read by get_number_input (an I/O error aside) makes it return
\* Err(UserExit) when it is an exit command, Ok(0) when it is empty once trimmed,
\* Ok(n) when it spells the i32 n; on any other line it prints the retry message and
\* asks the same prompt again, with nothing bound and nothing returned.
C11_NumberInput ==
    [][(pc = "prompt" /\ prompt \in NumberPrompts /\ outcome' # "Io") =>
          LET line == last_line' IN
          IF line \in ExitLines
          THEN outcome' = "UserExit" /\ pc' = "done" /\ locals' = locals /\ ~retry_message'
          ELSE IF IsBlankLine(line) THEN NumberReturned(0)
          ELSE IF \E e \in EnteredNumbers : e[1] = line
          THEN \A e \in EnteredNumbers : e[1] = line => NumberReturned(e[2])
          ELSE /\ retry_message'
               /\ pc' = "prompt" /\ prompt' = prompt
               /\ locals' = locals /\ outcome' = "running"
               /\ db' = db /\ insert_calls' = insert_calls]_vars

\* the retry message after 2147483648, one more than the largest i32, at the nap
\* prompt
C11_Witness ==
    /\ pc = "prompt"
    /\ prompt = 4
    /\ last_line = <<"2", "1", "4", "7", "4", "8", "3", "6", "4", "8", "\n">>
    /\ retry_message
    /\ outcome = "running"

====
